---- MODULE Spec2Model ----
(***************************************************************************)
(* Token-stream animation engine of the speculative-decoding dashboard.    *)
(*                                                                         *)
(* DashboardBody (src/components/dashboard-body.tsx) and ChatStream        *)
(* (src/components/chat-stream.tsx) are React components: every timer      *)
(* callback, transport callback and UI handler runs to completion and its  *)
(* state updates are applied as one batch, so each is one action here.     *)
(*                                                                         *)
(* Texts are sequences of one-character strings.  Rational quantities are  *)
(* kept in fixed point: acceptance_rate in hundredths (0.75 is 75), the    *)
(* displayed acceptance rate in hundredths of a percent (75% is 7500) and  *)
(* the cost saving in micro-dollars (0.42 USD is 420000).                  *)
(* Date.now() values (streamStartMs, StatusEvent.timestamp) and the prompt *)
(* text are not represented: nothing in the engine reads them.             *)
(***************************************************************************)
EXTENDS Integers, Sequences, FiniteSets, Bags, TLC

VARIABLES
  tokens,                    \* the canned token stream (DEMO_TOKEN_STREAM / tokenStream)
  backendOnline,             \* "null" | "true" | "false"
  isStreaming,
  phase,
  visibleTokens,
  done,
  counts,
  packets,
  acceptanceRate,            \* hundredths of a percent
  totalInferenceTimeSavedMs,
  costSavingsDollars,        \* micro-dollars
  packetId,
  packetWordBuffer,
  generatedOutputTokens,
  acceptedDraftTokens,
  stepIdx,
  timeoutRef,                \* 0 is null, otherwise a timer handle
  cleanupRef,                \* 0 is null, otherwise the run whose cleanup it is
  timers,                    \* bag of pending setTimeout callbacks
  timerSeq,                  \* handles given out so far (only kept handles are numbered)
  run,                       \* number of handleSubmit calls so far
  tokenQueue,                \* per run: the closure's tokenQueue
  processing,                \* per run: the closure's processing flag
  transport,                 \* per run: "none" | "open" | "closed"
  msgCount,                  \* transport events delivered so far
  cleanupCalls,              \* per run: how often its cleanup was invoked
  transportLog,              \* history: the cleanup and streamInference calls, in order
  status,                    \* ChatStream: the StreamStatus snapshot
  statusEvents,              \* ChatStream: the bounded event log
  eventIdRef,                \* ChatStream: id counter of the event log
  laneWords,                 \* history: words dispatched per lane since the buffer reset
  laneEmitted,               \* history: packets emitted per lane since the buffer reset
  eventLog,                  \* history: every event handed to addEvent, in order
  clock                      \* history: the delay clock of the step scheduler, the sum of
                             \* the delays of its timers fired since the start, in ms

vars ==
  << tokens, backendOnline, isStreaming, phase, visibleTokens, done, counts, packets,
     acceptanceRate, totalInferenceTimeSavedMs, costSavingsDollars, packetId,
     packetWordBuffer, generatedOutputTokens, acceptedDraftTokens, stepIdx, timeoutRef,
     cleanupRef, timers, timerSeq, run, tokenQueue, processing, transport, msgCount,
     cleanupCalls, transportLog, status, statusEvents, eventIdRef, laneWords, laneEmitted, eventLog,
     clock >>

\* ---------------------------------------------------------------- bounds

MaxSubmits == 2

MaxMsgs == 2

MaxLen == 3

DemoLen == 16

MaxActivePackets == 2

\* ---------------------------------------------------------------- constants

ACCEPTED_DELAY == 60

REJECTED_SHOW_DELAY == 80

STRIKE_PAUSE == 500

INITIAL_DELAY == 800

HIDDEN_TO_CORRECTED_DELAY == 100

\* the settle stage waiting as long as the show stage
SettleAfterShowDelay == REJECTED_SHOW_DELAY

SETTLE_DELAY == 150

STREAM_TOKEN_DELAY == 20

CHECK_DONE_DELAY == 100

WORDS_PER_PACKET == 3

ESTIMATED_CLOUD_COST_PER_1K_TOKENS_USD == 500000

ESTIMATED_TIME_SAVED_PER_ACCEPTED_TOKEN_MS == 12

EVENT_LOG_SIZE == 5

\* ---------------------------------------------------------------- data

Tok(text, type) == [text |-> text, type |-> type]

Lanes == {"draft", "verify"}

GREEN == "hsl(142, 71%, 45%)"

BLUE == "hsl(217, 91%, 60%)"

YELLOW == "hsl(48, 96%, 53%)"

ZeroCounts == [accepted |-> 0, rejected |-> 0, corrected |-> 0, drafted |-> 0]

DEMO_TOKEN_STREAM ==
  <<
    Tok(<<"T","h","e">>, "accepted"),
    Tok(<<" ","t","h","e","o","r","y">>, "accepted"),
    Tok(<<" ","o","f">>, "accepted"),
    Tok(<<" ","r","e","l","a","t","i","v","i","t","y",",">>, "accepted"),
    Tok(<<" ","p","r","o","p","o","s","e","d">>, "accepted"),
    Tok(<<" ","b","y">>, "accepted"),
    Tok(<<" ","A","l","b","e","r","t">>, "accepted"),
    Tok(<<" ","E","i","n","s","t","e","i","n">>, "accepted"),
    Tok(<<" ","i","n">>, "accepted"),
    Tok(<<" ","t","h","e"," ","e","a","r","l","y">>, "rejected"),
    Tok(<<" ","1","9","0","5">>, "corrected"),
    Tok(<<" ","a","n","d">>, "accepted"),
    Tok(<<" ","1","9","1","5",",">>, "accepted"),
    Tok(<<" ","f","u","n","d","a","m","e","n","t","a","l","l","y">>, "accepted"),
    Tok(<<" ","c","h","a","n","g","e","d">>, "rejected"),
    Tok(<<" ","r","e","v","o","l","u","t","i","o","n","i","z","e","d">>, "corrected"),
    Tok(<<" ","o","u","r">>, "accepted"),
    Tok(<<" ","u","n","d","e","r","s","t","a","n","d","i","n","g">>, "accepted"),
    Tok(<<" ","o","f">>, "accepted"),
    Tok(<<" ","s","p","a","c","e">>, "accepted"),
    Tok(<<" ","a","n","d">>, "accepted"),
    Tok(<<" ","t","i","m","e",".">>, "accepted"),
    Tok(<<" ","S","p","e","c","i","a","l">>, "accepted"),
    Tok(<<" ","r","e","l","a","t","i","v","i","t","y">>, "accepted"),
    Tok(<<" ","s","h","o","w","s">>, "rejected"),
    Tok(<<" ","d","e","m","o","n","s","t","r","a","t","e","s">>, "corrected"),
    Tok(<<" ","t","h","a","t">>, "accepted"),
    Tok(<<" ","t","h","e">>, "accepted"),
    Tok(<<" ","s","p","e","e","d">>, "accepted"),
    Tok(<<" ","o","f">>, "accepted"),
    Tok(<<" ","l","i","g","h","t">>, "accepted"),
    Tok(<<" ","i","s">>, "accepted"),
    Tok(<<" ","c","o","n","s","t","a","n","t">>, "accepted"),
    Tok(<<" ","f","o","r">>, "accepted"),
    Tok(<<" ","a","l","l">>, "accepted"),
    Tok(<<" ","o","b","s","e","r","v","e","r","s",",">>, "accepted"),
    Tok(<<" ","l","e","a","d","i","n","g">>, "accepted"),
    Tok(<<" ","t","o">>, "accepted"),
    Tok(<<" ","t","h","e">>, "accepted"),
    Tok(<<" ","f","a","m","o","u","s">>, "rejected"),
    Tok(<<" ","i","c","o","n","i","c">>, "corrected"),
    Tok(<<" ","e","q","u","a","t","i","o","n">>, "accepted"),
    Tok(<<" ","E","=","m","c","2",".">>, "accepted"),
    Tok(<<" ","G","e","n","e","r","a","l">>, "accepted"),
    Tok(<<" ","r","e","l","a","t","i","v","i","t","y">>, "accepted"),
    Tok(<<" ","e","x","t","e","n","d","s">>, "accepted"),
    Tok(<<" ","t","h","i","s">>, "accepted"),
    Tok(<<" ","b","y">>, "accepted"),
    Tok(<<" ","e","x","p","l","a","i","n","i","n","g">>, "rejected"),
    Tok(<<" ","d","e","s","c","r","i","b","i","n","g">>, "corrected"),
    Tok(<<" ","g","r","a","v","i","t","y">>, "accepted"),
    Tok(<<" ","n","o","t">>, "accepted"),
    Tok(<<" ","a","s">>, "accepted"),
    Tok(<<" ","a">>, "accepted"),
    Tok(<<" ","f","o","r","c","e",",">>, "accepted"),
    Tok(<<" ","b","u","t">>, "accepted"),
    Tok(<<" ","a","s">>, "accepted"),
    Tok(<<" ","a">>, "accepted"),
    Tok(<<" ","c","u","r","v","a","t","u","r","e">>, "accepted"),
    Tok(<<" ","o","f">>, "accepted"),
    Tok(<<" ","s","p","a","c","e","t","i","m","e">>, "accepted"),
    Tok(<<" ","c","a","u","s","e","d">>, "accepted"),
    Tok(<<" ","b","y">>, "accepted"),
    Tok(<<" ","m","a","s","s">>, "rejected"),
    Tok(<<" ","m","a","s","s","i","v","e"," ","o","b","j","e","c","t","s",".">>, "corrected")
  >>

\* ---------------------------------------------------------------- countWords

IsSpace(c) == c \in {" ", "\t", "\n"}

RECURSIVE TrimStart(_)
TrimStart(s) ==
  IF s # <<>> /\ IsSpace(Head(s)) THEN TrimStart(Tail(s)) ELSE s

RECURSIVE TrimEnd(_)
TrimEnd(s) ==
  IF s # <<>> /\ IsSpace(s[Len(s)]) THEN TrimEnd(SubSeq(s, 1, Len(s) - 1)) ELSE s

\* String.prototype.trim
Trim(s) == TrimEnd(TrimStart(s))

\* String.prototype.split(/\s+/): the pieces between maximal whitespace runs
RECURSIVE SplitFrom(_, _, _)
SplitFrom(s, cur, acc) ==
  IF s = <<>> THEN Append(acc, cur)
  ELSE IF IsSpace(Head(s)) THEN SplitFrom(TrimStart(s), <<>>, Append(acc, cur))
  ELSE SplitFrom(Tail(s), Append(cur, Head(s)), acc)

SplitWs(s) == SplitFrom(s, <<>>, <<>>)

NonEmpty(p) == p # <<>>

countWordsNoFilter(text) == Len(SplitWs(Trim(text)))

countWords(text) == Len(SelectSeq(SplitWs(Trim(text)), NonEmpty))

\* ---------------------------------------------------------------- buildSteps

AcceptedStep(t, i) == [kind |-> "accepted", token |-> t, index |-> i]

\* a rejection step holding its two tokens in each other's place
RejectionStepSwapped(r, c, i) ==
  [kind |-> "rejection", rejected |-> c, corrected |-> r, rejIdx |-> i, corrIdx |-> i + 1]

RejectionStep(r, c, i) ==
  [kind |-> "rejection", rejected |-> r, corrected |-> c, rejIdx |-> i, corrIdx |-> i + 1]

\* buildSteps pairing a rejected token with whatever token follows it
RECURSIVE buildStepsPairAny(_, _, _)
buildStepsPairAny(toks, i, steps) ==
  IF i >= Len(toks) THEN steps
  ELSE IF toks[i + 1].type = "rejected" /\ i + 1 < Len(toks)
  THEN buildStepsPairAny(toks, i + 2, Append(steps, RejectionStep(toks[i + 1], toks[i + 2], i)))
  ELSE buildStepsPairAny(toks, i + 1, Append(steps, AcceptedStep(toks[i + 1], i)))

\* the while loop of buildSteps; i is the 0-based cursor
RECURSIVE buildStepsFrom(_, _, _)
buildStepsFrom(toks, i, steps) ==
  IF i >= Len(toks) THEN steps
  ELSE IF toks[i + 1].type = "rejected" /\ i + 1 < Len(toks) /\ toks[i + 2].type = "corrected"
  THEN buildStepsFrom(toks, i + 2, Append(steps, RejectionStep(toks[i + 1], toks[i + 2], i)))
  ELSE buildStepsFrom(toks, i + 1, Append(steps, AcceptedStep(toks[i + 1], i)))

buildSteps(toks) == buildStepsFrom(toks, 0, <<>>)

DEMO_STEPS == buildSteps(tokens)

\* ---------------------------------------------------------------- packet throttler

\* The refs and state the packet functions touch, threaded through one firing.
PS ==
  [id |-> packetId, buf |-> packetWordBuffer, pk |-> packets,
   words |-> laneWords, emitted |-> laneEmitted]

\* Explored are the behaviours in which the visualizer acknowledges packets soon
\* enough: a firing that emits packets waits until those in flight and its own number
\* at most MaxActivePackets, or until none is in flight.
SetPS(ps) ==
  /\ Len(ps.pk) <= MaxActivePackets \/ packets = <<>>
  /\ packetId' = ps.id
  /\ packetWordBuffer' = ps.buf
  /\ packets' = ps.pk
  /\ laneWords' = ps.words
  /\ laneEmitted' = ps.emitted

Direction(lane) == IF lane = "draft" THEN "ltr" ELSE "rtl"

\* emitPacket reading packetId.current without the post-increment
emitPacketSameId(ps, lane, color) ==
  [ps EXCEPT
     !.pk = Append(@, [id |-> ps.id, direction |-> Direction(lane),
                       lane |-> lane, color |-> color]),
     !.emitted[lane] = @ + 1]

emitPacket(ps, lane, color) ==
  [ps EXCEPT
     !.id = @ + 1,
     !.pk = Append(@, [id |-> ps.id, direction |-> Direction(lane),
                       lane |-> lane, color |-> color]),
     !.emitted[lane] = @ + 1]

\* the throttler with `if` in place of `while`: at most one packet per call
emitOnce(ps, lane, color) ==
  IF ps.buf[lane] >= WORDS_PER_PACKET
  THEN [emitPacket(ps, lane, color) EXCEPT !.buf[lane] = @ - WORDS_PER_PACKET]
  ELSE ps

\* the while loop of emitPacketForWords
RECURSIVE emitLoop(_, _, _)
emitLoop(ps, lane, color) ==
  IF ps.buf[lane] >= WORDS_PER_PACKET
  THEN emitLoop([emitPacket(ps, lane, color) EXCEPT !.buf[lane] = @ - WORDS_PER_PACKET],
                lane, color)
  ELSE ps

\* the throttler feeding the draft lane only
emitPacketForDraftWords(ps, lane, color, text) ==
  LET words == countWords(text) IN
  IF words = 0 \/ lane # "draft" THEN ps
  ELSE emitLoop([ps EXCEPT !.buf[lane] = @ + words, !.words[lane] = @ + words],
                lane, color)

emitPacketForWords(ps, lane, color, text) ==
  LET words == countWords(text) IN
  IF words = 0 THEN ps
  ELSE emitLoop([ps EXCEPT !.buf[lane] = @ + words, !.words[lane] = @ + words],
                lane, color)

ZeroLanes == [draft |-> 0, verify |-> 0]

\* ---------------------------------------------------------------- timers

Timer(h, r, cb, delay, step) ==
  [h |-> h, run |-> r, cb |-> cb, delay |-> delay, step |-> step]

Pending == BagToSet(timers)

One(t) == SetToBag({t})

\* clearTimeout(handle): cancels the pending timer with that handle, if any
clearTimeout(bag, h) ==
  IF h = 0 THEN bag
  ELSE LET hit == {t \in BagToSet(bag) : t.h = h} IN
       [t \in BagToSet(bag) \ hit |-> bag[t]]

\* ---------------------------------------------------------------- visible tokens

VTok(text, type, ph) == [text |-> text, type |-> type, phase |-> ph]

\* the phase written at index 0 instead of copy.length - 1
SetFirstPhase(vt, ph) ==
  IF vt = << >> THEN vt ELSE [vt EXCEPT ![1] = [@ EXCEPT !.phase = ph]]

\* the phase write lost: the list is returned as it was
KeepLastPhase(vt, ph) == vt

\* copy[copy.length - 1] = {...copy[copy.length - 1], phase}; on an empty array this
\* writes the property "-1" and the array keeps no element
SetLastPhase(vt, ph) ==
  IF vt = <<>> THEN vt ELSE [vt EXCEPT ![Len(vt)].phase = ph]

\* the filter predicate inverted: only hidden tokens pass
OnlyHidden(t) == t.phase = "hidden"

\* t => t.phase !== "hidden"
NotHidden(t) == t.phase # "hidden"

\* the filter dropped: hidden tokens stay in the list
KeepHidden(vt) == vt

WithoutHidden(vt) == SelectSeq(vt, NotHidden)

\* Array.prototype.findLastIndex, 1-based, 0 when there is none
FindLastIndex(vt, type, ph) ==
  LET hits == {i \in 1..Len(vt) : vt[i].type = type /\ vt[i].phase = ph} IN
  IF hits = {} THEN 0 ELSE CHOOSE i \in hits : \A j \in hits : j <= i

SetFoundPhase(vt, type, from, to) ==
  LET last == FindLastIndex(vt, type, from) IN
  IF last > 0 THEN [vt EXCEPT ![last].phase = to] ELSE vt


\* ---------------------------------------------------------------- variable groups

chatVars == << status, statusEvents, eventIdRef, eventLog >>

liveVars ==
  << run, tokenQueue, processing, transport, msgCount, cleanupCalls, cleanupRef,
     transportLog >>

metricVars ==
  << acceptanceRate, totalInferenceTimeSavedMs, costSavingsDollars, acceptedDraftTokens,
     generatedOutputTokens >>

packetVars == << packetId, packetWordBuffer, packets, laneWords, laneEmitted >>

Runs == 1..MaxSubmits

\* ---------------------------------------------------------------- DashboardBody: construction

InitCommon ==
  /\ backendOnline = "null"
  /\ isStreaming = FALSE
  /\ phase = "idle"
  /\ visibleTokens = <<>>
  /\ done = FALSE
  /\ counts = ZeroCounts
  /\ packets = <<>>
  /\ acceptanceRate = 8200
  /\ totalInferenceTimeSavedMs = 320
  /\ costSavingsDollars = 420000
  /\ packetId = 0
  /\ packetWordBuffer = ZeroLanes
  /\ generatedOutputTokens = 0
  /\ acceptedDraftTokens = 0
  /\ stepIdx = 0
  /\ timeoutRef = 0
  /\ cleanupRef = 0
  /\ timers = EmptyBag
  /\ timerSeq = 0
  /\ run = 0
  /\ tokenQueue = [r \in Runs |-> <<>>]
  /\ processing = [r \in Runs |-> FALSE]
  /\ transport = [r \in Runs |-> "none"]
  /\ msgCount = 0
  /\ cleanupCalls = [r \in Runs |-> 0]
  /\ transportLog = <<>>
  /\ status = [phase |-> "idle", currentToken |-> <<>>, counts |-> ZeroCounts]
  /\ statusEvents = <<>>
  /\ eventIdRef = 0
  /\ laneWords = ZeroLanes
  /\ laneEmitted = ZeroLanes
  /\ eventLog = <<>>
  /\ clock = 0

Init ==
  /\ tokens = SubSeq(DEMO_TOKEN_STREAM, 1, DemoLen)
  /\ InitCommon

\* setTimeout(cb, delay) whose handle is not stored
DropTimeout(base, cb, delay, step) ==
  /\ timerSeq' = timerSeq + 1
  /\ timeoutRef' = timeoutRef
  /\ timers' = base (+) One(Timer(timerSeq + 1, 0, cb, delay, step))

\* timeoutRef.current = setTimeout(cb, delay): the handle is kept
KeepTimeout(base, cb, delay, step) ==
  /\ timerSeq' = timerSeq + 1
  /\ timeoutRef' = timerSeq + 1
  /\ timers' = base (+) One(Timer(timerSeq + 1, 0, cb, delay, step))

\* checkHealth().then(setBackendOnline), and the demo start effect that
\* re-runs (cleanup first) because backendOnline changed
CheckHealth(b) ==
  /\ backendOnline = "null"
  /\ backendOnline' = b
  /\ IF b = "false"
     THEN /\ packetWordBuffer' = ZeroLanes
          /\ laneWords' = ZeroLanes
          /\ laneEmitted' = ZeroLanes
          /\ KeepTimeout(clearTimeout(timers, timeoutRef), "processDemoStep",
                         INITIAL_DELAY, 0)
     ELSE /\ timers' = clearTimeout(timers, timeoutRef)
          /\ UNCHANGED << packetWordBuffer, laneWords, laneEmitted, timerSeq, timeoutRef >>
  /\ UNCHANGED << tokens, isStreaming, phase, visibleTokens, done, counts, packets,
                  packetId, stepIdx, metricVars, liveVars, chatVars, clock >>

\* the filter keeping p.id > id: older packets go with the acknowledged one
handlePacketDoneUpTo(pk, id) ==
  LET Keep(p) == p.id > id IN SelectSeq(pk, Keep)

handlePacketDone(pk, id) ==
  LET Keep(p) == p.id # id IN SelectSeq(pk, Keep)

HandlePacketDone(id) ==
  /\ packets' = handlePacketDone(packets, id)
  /\ UNCHANGED << tokens, backendOnline, isStreaming, phase, visibleTokens, done, counts,
                  packetId, packetWordBuffer, laneWords, laneEmitted, stepIdx, timeoutRef,
                  timers, timerSeq, metricVars, liveVars, chatVars, clock >>

\* ---------------------------------------------------------------- DashboardBody: demo mode

DemoFrame == << tokens, backendOnline, isStreaming, done, metricVars, liveVars, chatVars >>

\* an accepted step counting its token under whatever tag it carries
AcceptedCountsByTag(c, type) ==
  [c EXCEPT !.drafted = @ + 1, ![type] = @ + 1]

AcceptedCounts(c, type) ==
  [c EXCEPT !.drafted = @ + 1,
            !.accepted = IF type = "accepted" THEN @ + 1 ELSE @,
            !.corrected = IF type = "corrected" THEN @ + 1 ELSE @]

\* the terminal test comparing against the index of the last step
cursorAtLast(idx, steps) == idx >= Len(steps) - 1

\* stepIdx.current >= DEMO_STEPS.length
cursorPastEnd(idx, steps) == idx >= Len(steps)

\* processDemoStep: the terminal firing, an accepted step, or stage 1 of a rejection
ProcessDemoStep(t) ==
  /\ t \in Pending /\ t.run = 0 /\ t.cb = "processDemoStep"
  /\ clock' = clock + t.delay
  /\ LET rest == timers (-) One(t) IN
     IF cursorPastEnd(stepIdx, DEMO_STEPS)
     THEN /\ done' = TRUE
          /\ phase' = "complete"
          /\ timers' = rest
          /\ UNCHANGED << tokens, backendOnline, isStreaming, visibleTokens, counts,
                          packetVars, stepIdx, timeoutRef, timerSeq, metricVars, liveVars,
                          chatVars >>
     ELSE LET step == DEMO_STEPS[stepIdx + 1] IN
          /\ stepIdx' = stepIdx + 1
          /\ phase' = "drafting"
          /\ IF step.kind = "accepted"
             THEN /\ SetPS(emitPacketForWords(
                             emitPacketForWords(PS, "draft", GREEN, step.token.text),
                             "verify", BLUE, step.token.text))
                  /\ visibleTokens' =
                       Append(visibleTokens, VTok(step.token.text, step.token.type, "settled"))
                  /\ counts' = AcceptedCounts(counts, step.token.type)
                  /\ KeepTimeout(rest, "processDemoStep", ACCEPTED_DELAY, 0)
             ELSE /\ SetPS(emitPacketForWords(PS, "draft", GREEN, step.rejected.text))
                  /\ visibleTokens' =
                       Append(visibleTokens, VTok(step.rejected.text, "rejected", "appearing"))
                  /\ counts' = [counts EXCEPT !.drafted = @ + 1]
                  /\ KeepTimeout(rest, "strike", REJECTED_SHOW_DELAY, stepIdx + 1)
          /\ UNCHANGED DemoFrame

\* stage 2 of a rejection step (after REJECTED_SHOW_DELAY)
DemoStrike(t) ==
  /\ t \in Pending /\ t.run = 0 /\ t.cb = "strike"
  /\ clock' = clock + t.delay
  /\ LET step == DEMO_STEPS[t.step] IN
     /\ phase' = "verifying"
     /\ SetPS(emitPacketForWords(PS, "verify", YELLOW, step.rejected.text))
     /\ visibleTokens' = SetLastPhase(visibleTokens, "striking")
     /\ counts' = [counts EXCEPT !.rejected = @ + 1]
     /\ KeepTimeout(timers (-) One(t), "hide", STRIKE_PAUSE, t.step)
  /\ UNCHANGED << stepIdx, DemoFrame >>

\* stage 3 (after STRIKE_PAUSE)
DemoHide(t) ==
  /\ t \in Pending /\ t.run = 0 /\ t.cb = "hide"
  /\ clock' = clock + t.delay
  /\ visibleTokens' = SetLastPhase(visibleTokens, "hidden")
  /\ KeepTimeout(timers (-) One(t), "correct", HIDDEN_TO_CORRECTED_DELAY, t.step)
  /\ UNCHANGED << phase, counts, packetVars, stepIdx, DemoFrame >>

\* stage 4 (after 100 ms)
DemoCorrect(t) ==
  /\ t \in Pending /\ t.run = 0 /\ t.cb = "correct"
  /\ clock' = clock + t.delay
  /\ LET step == DEMO_STEPS[t.step] IN
     /\ phase' = "correcting"
     /\ SetPS(emitPacketForWords(
                emitPacketForWords(PS, "draft", BLUE, step.corrected.text),
                "verify", BLUE, step.corrected.text))
     /\ visibleTokens' =
          Append(WithoutHidden(visibleTokens), VTok(step.corrected.text, "corrected", "appearing"))
     /\ counts' = [counts EXCEPT !.drafted = @ + 1, !.corrected = @ + 1]
     /\ KeepTimeout(timers (-) One(t), "settle", SETTLE_DELAY, t.step)
  /\ UNCHANGED << stepIdx, DemoFrame >>

\* stage 5 (after 150 ms)
DemoSettle(t) ==
  /\ t \in Pending /\ t.run = 0 /\ t.cb = "settle"
  /\ clock' = clock + t.delay
  /\ visibleTokens' = SetLastPhase(visibleTokens, "settled")
  /\ phase' = "drafting"
  /\ KeepTimeout(timers (-) One(t), "processDemoStep", ACCEPTED_DELAY, 0)
  /\ UNCHANGED << counts, packetVars, stepIdx, DemoFrame >>

\* ---------------------------------------------------------------- DashboardBody: live mode

\* lib/api's streamInference opens the transport of the run and returns its cleanup;
\* the cleanup closes it, after which none of the run's callbacks is invoked
streamInference(tr, r) == [tr EXCEPT ![r] = "open"]

cleanup(tr, r) == [tr EXCEPT ![r] = "closed"]

\* handleSubmit opening the transport of run r before it cleans up the previous one
restartOpenFirst(log, prev, r) ==
  log \o << [op |-> "open", run |-> r] >>
      \o (IF prev # 0 THEN << [op |-> "cleanup", run |-> prev] >> ELSE << >>)

\* the calls handleSubmit makes on the transport, in its order: the previous run's
\* cleanup if cleanupRef.current is set, then streamInference
restart(log, prev, r) ==
  log \o (IF prev # 0 THEN << [op |-> "cleanup", run |-> prev] >> ELSE << >>)
      \o << [op |-> "open", run |-> r] >>

LiveTimeout(base, r, cb, delay) == base (+) One(Timer(0, r, cb, delay, 0))

\* the savings computed from the count before the newly accepted token was added
TimeSavedBeforeIncrement(n) ==
  (IF n > 0 THEN n - 1 ELSE 0) * ESTIMATED_TIME_SAVED_PER_ACCEPTED_TOKEN_MS

\* updateLiveSavingsFromAcceptedTokens: acceptedDraftTokens.current * 12
TimeSavedMs(n) == n * ESTIMATED_TIME_SAVED_PER_ACCEPTED_TOKEN_MS

\* the done branch adding the authoritative count to the local one
localPlusAuthoritative(local, data) == local + data.draft_tokens_accepted

\* acceptedDraftTokens.current = data.draft_tokens_accepted
authoritativeCount(local, data) == data.draft_tokens_accepted

\* (n / 1000) * 0.5 dollars, in micro-dollars
CostSavedMicroUsd(n) == (n * ESTIMATED_CLOUD_COST_PER_1K_TOKENS_USD) \div 1000

\* acceptance_rate * 100, from hundredths to hundredths of a percent
\* the ratio shown unscaled
RateUnscaled(rate) == rate

RatePercent(rate) == rate * 100

\* the ChatInput is disabled while isStreaming || (!backendOnline && !done)
SubmitEnabled == ~isStreaming /\ ~(backendOnline # "true" /\ ~done)

\* the reset of the metrics putting the acceptance rate back to its default as well
resetSavingsAndRate(m) == [m EXCEPT !.rate = 100 * 82, !.time = 0, !.cost = 0]

\* setTotalInferenceTimeSavedMs(0); setCostSavingsDollars(0); no setAcceptanceRate
resetSavings(m) == [m EXCEPT !.time = 0, !.cost = 0]

\* the reset of the refs restarting the packet id counter as well
resetPacketRefsAndId(ps) ==
  [ps EXCEPT !.id = 0, !.buf = ZeroLanes, !.words = ZeroLanes, !.emitted = ZeroLanes]

\* packetWordBuffer.current = { draft: 0, verify: 0 }; packetId.current and the packets
\* in flight are not touched
resetPacketRefs(ps) ==
  [ps EXCEPT !.buf = ZeroLanes, !.words = ZeroLanes, !.emitted = ZeroLanes]

\* a reset that clears drafted only
resetDrafted(c) == [c EXCEPT !.drafted = 0]

\* setCounts({ accepted: 0, rejected: 0, corrected: 0, drafted: 0 })
resetCounts(c) == ZeroCounts

handleSubmit ==
  /\ SubmitEnabled
  /\ run < MaxSubmits
  /\ LET r == run + 1 IN
     /\ visibleTokens' = <<>>
     /\ done' = FALSE
     /\ counts' = resetCounts(counts)
     /\ phase' = "idle"
     /\ isStreaming' = TRUE
     /\ LET m == resetSavings([rate |-> acceptanceRate,
                                time |-> totalInferenceTimeSavedMs,
                                cost |-> costSavingsDollars]) IN
          /\ acceptanceRate' = m.rate
          /\ totalInferenceTimeSavedMs' = m.time
          /\ costSavingsDollars' = m.cost
     /\ LET ps == resetPacketRefs(PS) IN
          /\ packetId' = ps.id
          /\ packetWordBuffer' = ps.buf
          /\ packets' = ps.pk
          /\ laneWords' = ps.words
          /\ laneEmitted' = ps.emitted
     /\ generatedOutputTokens' = 0
     /\ acceptedDraftTokens' = 0
     /\ timers' = clearTimeout(timers, timeoutRef)
     /\ cleanupCalls' = IF cleanupRef # 0
                        THEN [cleanupCalls EXCEPT ![cleanupRef] = @ + 1]
                        ELSE cleanupCalls
     /\ transport' = streamInference(
                       IF cleanupRef # 0 THEN cleanup(transport, cleanupRef) ELSE transport, r)
     /\ transportLog' = restart(transportLog, cleanupRef, r)
     /\ cleanupRef' = r
     /\ run' = r
  /\ UNCHANGED << tokens, backendOnline, stepIdx, timeoutRef, timerSeq, tokenQueue,
                  processing, msgCount, chatVars, clock >>

\* a drained token counted as drafted only
draftedOnly(c, type) == [c EXCEPT !.drafted = @ + 1]

\* setCounts(prev => ({ ...prev, drafted: prev.drafted + 1, accepted: prev.accepted + 1 }))
\* and its like for a rejected and a corrected token
drainedCounts(c, type) == [c EXCEPT !.drafted = @ + 1, ![type] = @ + 1]

\* processTokenQueue of run r, entered with queue q, visible tokens vt and pending timers tm
processTokenQueue(r, q, vt, tm) ==
  IF q = <<>>
  THEN /\ processing' = [processing EXCEPT ![r] = FALSE]
       /\ tokenQueue' = [tokenQueue EXCEPT ![r] = q]
       /\ visibleTokens' = vt
       /\ timers' = tm
       /\ UNCHANGED << phase, counts, packetVars >>
  ELSE LET token == Head(q) IN
       /\ processing' = [processing EXCEPT ![r] = TRUE]
       /\ tokenQueue' = [tokenQueue EXCEPT ![r] = Tail(q)]
       /\ CASE token.type = "accepted" ->
                 /\ phase' = "drafting"
                 /\ SetPS(emitPacketForWords(
                            emitPacketForWords(PS, "draft", GREEN, token.text),
                            "verify", BLUE, token.text))
                 /\ visibleTokens' = Append(vt, VTok(token.text, "accepted", "settled"))
                 /\ counts' = drainedCounts(counts, "accepted")
                 /\ timers' = LiveTimeout(tm, r, "processTokenQueue", STREAM_TOKEN_DELAY)
            [] token.type = "rejected" ->
                 /\ phase' = "verifying"
                 /\ SetPS(emitPacketForWords(
                            emitPacketForWords(PS, "draft", GREEN, token.text),
                            "verify", YELLOW, token.text))
                 /\ visibleTokens' = Append(vt, VTok(token.text, "rejected", "appearing"))
                 /\ counts' = drainedCounts(counts, "rejected")
                 /\ timers' = LiveTimeout(tm, r, "liveStrike", REJECTED_SHOW_DELAY)
            [] token.type = "corrected" ->
                 /\ phase' = "correcting"
                 /\ SetPS(emitPacketForWords(
                            emitPacketForWords(PS, "draft", BLUE, token.text),
                            "verify", BLUE, token.text))
                 /\ visibleTokens' = Append(vt, VTok(token.text, "corrected", "appearing"))
                 /\ counts' = drainedCounts(counts, "corrected")
                 /\ timers' = LiveTimeout(tm, r, "liveSettle", SETTLE_DELAY)
            [] OTHER ->
                 /\ visibleTokens' = vt
                 /\ timers' = tm
                 /\ UNCHANGED << phase, counts, packetVars >>

\* checkDone of run r, entered with pending timers tm
checkDone(r, tm) ==
  IF tokenQueue[r] = <<>> /\ ~processing[r]
  THEN /\ done' = TRUE
       /\ phase' = "complete"
       /\ isStreaming' = FALSE
       /\ timers' = tm
  ELSE /\ timers' = LiveTimeout(tm, r, "checkDone", CHECK_DONE_DELAY)
       /\ UNCHANGED << done, phase, isStreaming >>

\* the error branch of onMessage, and the onError callback
\* the error branch finishing the run as complete
failRunAsComplete ==
  /\ done' = TRUE
  /\ phase' = "complete"
  /\ isStreaming' = FALSE

failRun ==
  /\ done' = TRUE
  /\ phase' = "idle"
  /\ isStreaming' = FALSE

LiveFrame == << tokens, backendOnline, stepIdx, timeoutRef, timerSeq, run, cleanupRef,
                cleanupCalls, transportLog, chatVars, clock >>

\* the round branch running on into the done branch's finalization
onRoundThenCheckDone(r, msg) ==
  /\ acceptanceRate' = RatePercent(msg.data.acceptance_rate)
  /\ checkDone(r, timers)
  /\ UNCHANGED << visibleTokens, counts, packetVars, totalInferenceTimeSavedMs,
                  costSavingsDollars, generatedOutputTokens, acceptedDraftTokens,
                  tokenQueue, processing, transport >>

\* the round branch of onMessage
onRound(r, msg) ==
  /\ acceptanceRate' = RatePercent(msg.data.acceptance_rate)
  /\ UNCHANGED << isStreaming, phase, visibleTokens, done, counts, packetVars,
                  totalInferenceTimeSavedMs, costSavingsDollars,
                  generatedOutputTokens, acceptedDraftTokens, timers, tokenQueue,
                  processing, transport >>

\* the test of the generated-token counter used for the accepted-draft counter
isGeneratedOutput(type) == type \in {"accepted", "corrected"}

\* if (msg.data.type === "accepted")
isAcceptedDraft(type) == type = "accepted"

\* tokenQueue.unshift(msg.data): the new token in front of the waiting ones
unshift(q, data) == << data >> \o q

\* tokenQueue.push(msg.data)
push(q, data) == Append(q, data)

\* the token branch draining on every message, whatever the flag
ignoreProcessing(flag) == TRUE

\* if (!processing) processTokenQueue()
notProcessing(flag) == ~flag

\* the onMessage callback handed to streamInference by run r, the transport
\* delivering at most max messages
OnMessageWithin(r, msg, max) ==
  /\ transport[r] = "open"
  /\ msgCount < max
  /\ msgCount' = msgCount + 1
  /\ CASE msg.type = "token" ->
            /\ acceptedDraftTokens' =
                 IF isAcceptedDraft(msg.data.type) THEN acceptedDraftTokens + 1
                 ELSE acceptedDraftTokens
            /\ IF isAcceptedDraft(msg.data.type)
               THEN /\ totalInferenceTimeSavedMs' = TimeSavedMs(acceptedDraftTokens')
                    /\ costSavingsDollars' = CostSavedMicroUsd(acceptedDraftTokens')
               ELSE UNCHANGED << totalInferenceTimeSavedMs, costSavingsDollars >>
            /\ generatedOutputTokens' =
                 IF msg.data.type \in {"accepted", "corrected"}
                 THEN generatedOutputTokens + 1 ELSE generatedOutputTokens
            /\ IF notProcessing(processing[r])
               THEN processTokenQueue(r, push(tokenQueue[r], msg.data), visibleTokens, timers)
               ELSE /\ tokenQueue' = [tokenQueue EXCEPT ![r] = push(@, msg.data)]
                    /\ UNCHANGED << processing, visibleTokens, timers, phase, counts,
                                    packetVars >>
            /\ UNCHANGED << acceptanceRate, done, isStreaming, transport >>
       [] msg.type = "round" -> onRound(r, msg)
       [] msg.type = "done" ->
            /\ acceptanceRate' = RatePercent(msg.data.acceptance_rate)
            /\ acceptedDraftTokens' = authoritativeCount(acceptedDraftTokens, msg.data)
            /\ totalInferenceTimeSavedMs' = TimeSavedMs(acceptedDraftTokens')
            /\ costSavingsDollars' = CostSavedMicroUsd(acceptedDraftTokens')
            /\ checkDone(r, timers)
            /\ UNCHANGED << visibleTokens, counts, packetVars, generatedOutputTokens,
                            tokenQueue, processing, transport >>
       [] msg.type = "error" ->
            /\ failRun
            /\ UNCHANGED << visibleTokens, counts, packetVars, metricVars, timers,
                            tokenQueue, processing, transport >>
  /\ UNCHANGED LiveFrame

OnMessage(r, msg) == OnMessageWithin(r, msg, MaxMsgs)

\* the onError callback of run r
OnError(r) ==
  /\ transport[r] = "open"
  /\ msgCount < MaxMsgs
  /\ msgCount' = msgCount + 1
  /\ failRun
  /\ UNCHANGED << visibleTokens, counts, packetVars, metricVars, timers, tokenQueue,
                  processing, transport, LiveFrame >>

\* the onClose callback of run r; a closed transport delivers nothing more
OnClose(r) ==
  /\ transport[r] = "open"
  /\ transport' = [transport EXCEPT ![r] = "closed"]
  /\ isStreaming' = FALSE
  /\ UNCHANGED << phase, done, visibleTokens, counts, packetVars, metricVars, timers,
                  tokenQueue, processing, msgCount, LiveFrame >>

LiveTimerFrame ==
  << isStreaming, done, metricVars, transport, msgCount, LiveFrame >>

\* setTimeout(processTokenQueue, STREAM_TOKEN_DELAY) fires
LiveProcessTokenQueue(t) ==
  /\ t \in Pending /\ t.run > 0 /\ t.cb = "processTokenQueue"
  /\ processTokenQueue(t.run, tokenQueue[t.run], visibleTokens, timers (-) One(t))
  /\ UNCHANGED LiveTimerFrame

\* a rejected token: appearing -> striking (after REJECTED_SHOW_DELAY)
LiveStrike(t) ==
  /\ t \in Pending /\ t.run > 0 /\ t.cb = "liveStrike"
  /\ visibleTokens' = SetFoundPhase(visibleTokens, "rejected", "appearing", "striking")
  /\ timers' = LiveTimeout(timers (-) One(t), t.run, "liveHide", STRIKE_PAUSE)
  /\ UNCHANGED << phase, counts, packetVars, tokenQueue, processing, LiveTimerFrame >>

\* striking -> hidden (after STRIKE_PAUSE)
LiveHide(t) ==
  /\ t \in Pending /\ t.run > 0 /\ t.cb = "liveHide"
  /\ visibleTokens' = SetFoundPhase(visibleTokens, "rejected", "striking", "hidden")
  /\ timers' = LiveTimeout(timers (-) One(t), t.run, "liveFilter", HIDDEN_TO_CORRECTED_DELAY)
  /\ UNCHANGED << phase, counts, packetVars, tokenQueue, processing, LiveTimerFrame >>

\* hidden tokens are filtered out and the queue is drained further (after 100 ms)
LiveFilter(t) ==
  /\ t \in Pending /\ t.run > 0 /\ t.cb = "liveFilter"
  /\ processTokenQueue(t.run, tokenQueue[t.run], WithoutHidden(visibleTokens),
                       timers (-) One(t))
  /\ UNCHANGED LiveTimerFrame

\* a corrected token: appearing -> settled (after 150 ms)
LiveSettle(t) ==
  /\ t \in Pending /\ t.run > 0 /\ t.cb = "liveSettle"
  /\ visibleTokens' = SetLastPhase(visibleTokens, "settled")
  /\ timers' = LiveTimeout(timers (-) One(t), t.run, "processTokenQueue", STREAM_TOKEN_DELAY)
  /\ UNCHANGED << phase, counts, packetVars, tokenQueue, processing, LiveTimerFrame >>

\* setTimeout(checkDone, 100) fires
CheckDone(t) ==
  /\ t \in Pending /\ t.run > 0 /\ t.cb = "checkDone"
  /\ checkDone(t.run, timers (-) One(t))
  /\ UNCHANGED << visibleTokens, counts, packetVars, metricVars, tokenQueue, processing,
                  transport, msgCount, LiveFrame >>

\* ---------------------------------------------------------------- transport messages

TokenMsg(text, type) == [type |-> "token", data |-> [text |-> text, type |-> type]]

\* one token message of each type; "unknown" stands for any type outside the contract
TokenMsgs ==
  { TokenMsg(<<"a", " ", "b">>, "accepted"),
    TokenMsg(<<" ", "c", " ", "d", "\n", "e", " ", "f">>, "rejected"),
    TokenMsg(<<" ", "g">>, "corrected"),
    TokenMsg(<<"h">>, "unknown") }

Rates == {40, 75}

AuthCounts == {2}

RoundMsgs == {[type |-> "round", data |-> [acceptance_rate |-> a]] : a \in Rates}

DoneMsgs ==
  {[type |-> "done", data |-> [acceptance_rate |-> a, draft_tokens_accepted |-> n]] :
     a \in Rates, n \in AuthCounts}

ErrorMsgs == {[type |-> "error", data |-> [message |-> "failed"]]}

Msgs == TokenMsgs \cup RoundMsgs \cup DoneMsgs \cup ErrorMsgs

\* ---------------------------------------------------------------- specifications

Next ==
  \/ \E b \in {"true", "false"} : CheckHealth(b)
  \/ \E t \in Pending : ProcessDemoStep(t)
  \/ \E t \in Pending : DemoStrike(t)
  \/ \E t \in Pending : DemoHide(t)
  \/ \E t \in Pending : DemoCorrect(t)
  \/ \E t \in Pending : DemoSettle(t)
  \/ \E p \in {packets[i].id : i \in 1..Len(packets)} : HandlePacketDone(p)
  \/ handleSubmit
  \/ \E r \in Runs, m \in Msgs : OnMessage(r, m)
  \/ \E r \in Runs : OnError(r)
  \/ \E r \in Runs : OnClose(r)
  \/ \E t \in Pending : LiveProcessTokenQueue(t)
  \/ \E t \in Pending : LiveStrike(t)
  \/ \E t \in Pending : LiveHide(t)
  \/ \E t \in Pending : LiveFilter(t)
  \/ \E t \in Pending : LiveSettle(t)
  \/ \E t \in Pending : CheckDone(t)

Spec == Init /\ [][Next]_vars

\* ---------------------------------------------------------------- demo mode over any stream

DemoTexts == { <<" ">>, <<"a">>, <<" ", "b", " ", "c", "\t", "d", " ", "e">> }

TokenTypes == {"accepted", "rejected", "corrected"}

DemoTokens == {Tok(x, ty) : x \in DemoTexts, ty \in TokenTypes}

Streams == UNION {[1..n -> DemoTokens] : n \in 0..MaxLen}

\* the stream "The", " theory", " the early" (rejected), " 1905" (corrected)
ExampleStream ==
  << DEMO_TOKEN_STREAM[1], DEMO_TOKEN_STREAM[2], DEMO_TOKEN_STREAM[10], DEMO_TOKEN_STREAM[11] >>

InitDemo ==
  /\ tokens \in Streams \cup {ExampleStream}
  /\ InitCommon

NextDemo ==
  \/ CheckHealth("false")
  \/ \E t \in Pending : ProcessDemoStep(t)
  \/ \E t \in Pending : DemoStrike(t)
  \/ \E t \in Pending : DemoHide(t)
  \/ \E t \in Pending : DemoCorrect(t)
  \/ \E t \in Pending : DemoSettle(t)
  \/ \E p \in {packets[i].id : i \in 1..Len(packets)} : HandlePacketDone(p)

SpecDemo == InitDemo /\ [][NextDemo]_vars

\* ---------------------------------------------------------------- ChatStream

\* Array.prototype.slice(-n): the last n elements
SliceLast(seq, n) ==
  IF Len(seq) <= n THEN seq ELSE SubSeq(seq, Len(seq) - n + 1, Len(seq))

\* addEvent with slice(0, 5): the log keeps its first five entries
addEventKeepFirst(log, id, type, token) ==
  SubSeq(Append(log, [id |-> id, type |-> type, token |-> token]), 1,
         IF Len(log) + 1 < EVENT_LOG_SIZE THEN Len(log) + 1 ELSE EVENT_LOG_SIZE)

\* the state updater of addEvent; id is eventIdRef.current when the updater runs
addEvent(log, id, type, token) ==
  SliceLast(Append(log, [id |-> id, type |-> type, token |-> token]), EVENT_LOG_SIZE)

Logged(type, token) == [type |-> type, token |-> token]

ChatFrame ==
  << tokens, backendOnline, isStreaming, phase, packetVars, metricVars, liveVars >>

\* the effect of ChatStream: timeoutRef.current = setTimeout(processStep, INITIAL_DELAY)
ChatMount ==
  /\ timerSeq = 0
  /\ KeepTimeout(timers, "processStep", INITIAL_DELAY, 0)
  /\ UNCHANGED << visibleTokens, done, counts, stepIdx, chatVars, clock, ChatFrame >>

\* processStep: the terminal firing, an accepted step, or stage 1 of a rejection.
\* The updaters queued by one firing run after it, so every event added by the
\* firing reads the id counter as the firing left it.
ChatProcessStep(t) ==
  /\ t \in Pending /\ t.cb = "processStep"
  /\ clock' = clock + t.delay
  /\ LET rest == timers (-) One(t) IN
     IF cursorPastEnd(stepIdx, DEMO_STEPS)
     THEN /\ done' = TRUE
          /\ status' = [status EXCEPT !.phase = "complete"]
          /\ timers' = rest
          /\ UNCHANGED << visibleTokens, counts, stepIdx, timeoutRef, timerSeq,
                          statusEvents, eventIdRef, eventLog, ChatFrame >>
     ELSE LET step == DEMO_STEPS[stepIdx + 1] IN
          /\ stepIdx' = stepIdx + 1
          /\ IF step.kind = "accepted"
             THEN LET word == Trim(step.token.text) IN
                  /\ visibleTokens' =
                       Append(visibleTokens, VTok(step.token.text, step.token.type, "settled"))
                  /\ counts' = AcceptedCounts(counts, step.token.type)
                  /\ status' = [phase |-> "drafting", currentToken |-> word, counts |-> counts']
                  /\ eventIdRef' = eventIdRef + 2
                  /\ statusEvents' =
                       addEvent(addEvent(statusEvents, eventIdRef', "draft", word),
                                eventIdRef', "verified", word)
                  /\ eventLog' = eventLog \o << Logged("draft", word), Logged("verified", word) >>
                  /\ KeepTimeout(rest, "processStep", ACCEPTED_DELAY, 0)
             ELSE LET word == Trim(step.rejected.text) IN
                  /\ status' = [status EXCEPT !.phase = "drafting", !.currentToken = word]
                  /\ eventIdRef' = eventIdRef + 1
                  /\ statusEvents' = addEvent(statusEvents, eventIdRef', "draft", word)
                  /\ eventLog' = Append(eventLog, Logged("draft", word))
                  /\ visibleTokens' =
                       Append(visibleTokens, VTok(step.rejected.text, "rejected", "appearing"))
                  /\ counts' = [counts EXCEPT !.drafted = @ + 1]
                  /\ KeepTimeout(rest, "csStrike", REJECTED_SHOW_DELAY, stepIdx + 1)
          /\ UNCHANGED << done, ChatFrame >>

\* stage 2: verifying, the rejected token is struck
ChatStrike(t) ==
  /\ t \in Pending /\ t.cb = "csStrike"
  /\ clock' = clock + t.delay
  /\ LET word == Trim(DEMO_STEPS[t.step].rejected.text) IN
     /\ visibleTokens' = SetLastPhase(visibleTokens, "striking")
     /\ counts' = [counts EXCEPT !.rejected = @ + 1]
     /\ status' = [phase |-> "verifying", currentToken |-> word, counts |-> counts']
     /\ eventIdRef' = eventIdRef + 1
     /\ statusEvents' = addEvent(statusEvents, eventIdRef', "rejected", word)
     /\ eventLog' = Append(eventLog, Logged("rejected", word))
     /\ KeepTimeout(timers (-) One(t), "csHide", STRIKE_PAUSE, t.step)
  /\ UNCHANGED << done, stepIdx, ChatFrame >>

\* stage 3: the struck token is hidden
ChatHide(t) ==
  /\ t \in Pending /\ t.cb = "csHide"
  /\ clock' = clock + t.delay
  /\ visibleTokens' = SetLastPhase(visibleTokens, "hidden")
  /\ KeepTimeout(timers (-) One(t), "csCorrect", HIDDEN_TO_CORRECTED_DELAY, t.step)
  /\ UNCHANGED << done, counts, stepIdx, chatVars, ChatFrame >>

\* stage 4: correcting, the corrected token replaces the hidden one
ChatCorrect(t) ==
  /\ t \in Pending /\ t.cb = "csCorrect"
  /\ clock' = clock + t.delay
  /\ LET step == DEMO_STEPS[t.step]
         word == Trim(step.corrected.text) IN
     /\ eventIdRef' = eventIdRef + 1
     /\ statusEvents' = addEvent(statusEvents, eventIdRef', "corrected", word)
     /\ eventLog' = Append(eventLog, Logged("corrected", word))
     /\ visibleTokens' =
          Append(WithoutHidden(visibleTokens), VTok(step.corrected.text, "corrected", "appearing"))
     /\ counts' = [counts EXCEPT !.drafted = @ + 1, !.corrected = @ + 1]
     /\ status' = [phase |-> "correcting", currentToken |-> word, counts |-> counts']
     /\ KeepTimeout(timers (-) One(t), "csSettle", SETTLE_DELAY, t.step)
  /\ UNCHANGED << done, stepIdx, ChatFrame >>

\* stage 5: the corrected token settles and the next step is scheduled
ChatSettle(t) ==
  /\ t \in Pending /\ t.cb = "csSettle"
  /\ clock' = clock + t.delay
  /\ visibleTokens' = SetLastPhase(visibleTokens, "settled")
  /\ status' = [status EXCEPT !.phase = "drafting"]
  /\ KeepTimeout(timers (-) One(t), "processStep", ACCEPTED_DELAY, 0)
  /\ UNCHANGED << done, counts, stepIdx, statusEvents, eventIdRef, eventLog, ChatFrame >>

InitChat ==
  /\ tokens \in Streams \cup {ExampleStream, SubSeq(DEMO_TOKEN_STREAM, 1, DemoLen)}
  /\ InitCommon

NextChat ==
  \/ ChatMount
  \/ \E t \in Pending : ChatProcessStep(t)
  \/ \E t \in Pending : ChatStrike(t)
  \/ \E t \in Pending : ChatHide(t)
  \/ \E t \in Pending : ChatCorrect(t)
  \/ \E t \in Pending : ChatSettle(t)

SpecChat == InitChat /\ [][NextChat]_vars

\* ================================================================ claims

\* any timer callback of run r's closure fires
LiveFiring(t) ==
  \/ LiveProcessTokenQueue(t)
  \/ LiveStrike(t)
  \/ LiveHide(t)
  \/ LiveFilter(t)
  \/ LiveSettle(t)
  \/ CheckDone(t)

\* a callback of a run older than the current one runs: one of its timers, or its
\* transport handlers
OldRunFiring ==
  \/ \E t \in Pending : t.run > 0 /\ t.run < run /\ LiveFiring(t)
  \/ \E r \in Runs : r < run /\ (OnError(r) \/ OnClose(r) \/ \E m \in Msgs : OnMessage(r, m))

\* C1: once a new run was submitted, no callback of an earlier run changes the
\* visible tokens, counts, phase, done flag, streaming flag or metrics.
C1_OldRunLeavesNewRunAlone ==
  [][OldRunFiring =>
       UNCHANGED << visibleTokens, counts, phase, done, isStreaming, acceptanceRate,
                    totalInferenceTimeSavedMs, costSavingsDollars >>]_vars

\* ---- C2

NumSteps(kind) == Cardinality({k \in 1..stepIdx : DEMO_STEPS[k].kind = kind})

NumAcceptedTagged(tag) ==
  Cardinality({k \in 1..stepIdx :
                 DEMO_STEPS[k].kind = "accepted" /\ DEMO_STEPS[k].token.type = tag})

\* between two steps of the demo scheduler: the next processDemoStep is pending, or
\* the run is complete
AtStepBoundary ==
  /\ backendOnline = "false"
  /\ done \/ \E t \in Pending : t.cb = "processDemoStep"

\* C2: after any number of whole steps, drafted is 2 per rejection step plus
\* 1 per accepted step, rejected is 1 per rejection step, and accepted and corrected
\* together got 1 per rejection step (corrected) and exactly 1 per accepted step, a
\* token tagged accepted or corrected counting under its tag.
C2_EveryStepCountsOnce ==
  AtStepBoundary =>
    /\ counts.drafted = 2 * NumSteps("rejection") + NumSteps("accepted")
    /\ counts.rejected = NumSteps("rejection")
    /\ counts.accepted + counts.corrected = NumSteps("rejection") + NumSteps("accepted")
    /\ counts.accepted >= NumAcceptedTagged("accepted")
    /\ counts.corrected >= NumSteps("rejection") + NumAcceptedTagged("corrected")

\* ---- C3

Paired(toks) ==
  \A i \in 1..Len(toks) :
    toks[i].type = "rejected" => i < Len(toks) /\ toks[i + 1].type = "corrected"

NotRejected(t) == t.type # "rejected"

SettledView(toks) ==
  LET kept == SelectSeq(toks, NotRejected) IN
  [i \in 1..Len(kept) |-> VTok(kept[i].text, kept[i].type, "settled")]

\* C3: a complete demo run over a stream whose rejected tokens are each followed by a
\* corrected one shows exactly the non-rejected tokens, in order, all settled; for the
\* stream accepted, accepted, rejected, corrected that is three tokens and the counts
\* drafted 4, accepted 2, rejected 1, corrected 1.
C3_CompleteRunShowsSettledText ==
  (backendOnline = "false" /\ done /\ phase = "complete" /\ Paired(tokens)) =>
    /\ visibleTokens = SettledView(tokens)
    /\ tokens = ExampleStream =>
         /\ Len(visibleTokens) = 3
         /\ counts = [drafted |-> 4, accepted |-> 2, rejected |-> 1, corrected |-> 1]

C3_Witness ==
  /\ backendOnline = "false" /\ done /\ phase = "complete"
  /\ tokens = ExampleStream

\* ---- C4

\* C4: per lane, the packets emitted since the buffer reset number floor(W / 3) and
\* the buffer holds W mod 3, W being the words dispatched to the lane since the reset.
C4_PacketsPerThreeWords ==
  \A lane \in Lanes :
    /\ laneEmitted[lane] = laneWords[lane] \div 3
    /\ packetWordBuffer[lane] = laneWords[lane] % 3
    /\ packetWordBuffer[lane] \in 0..2

\* one call took the draft lane from 2 buffered words over two packet thresholds
C4_Witness ==
  /\ run > 0
  /\ laneWords["draft"] = 6
  /\ laneEmitted["draft"] = 2
  /\ laneEmitted["verify"] = 2

\* ---- C5

\* C5: the event log holds at most 5 entries, and they are the most recently added
\* events in the order they were added.
C5_EventLogKeepsLastFive ==
  LET n == Len(eventLog)
      k == IF n < 5 THEN n ELSE 5 IN
  /\ Len(statusEvents) = k
  /\ \A i \in 1..k :
       Logged(statusEvents[i].type, statusEvents[i].token) = eventLog[n - k + i]

\* more than five events were added, the evicted one differing from the oldest kept
C5_Witness ==
  /\ Len(eventLog) > 5
  /\ eventLog[Len(eventLog) - 5] # eventLog[Len(eventLog) - 4]
  /\ eventLog[1] # eventLog[3]

\* ---- C6

\* a step of the demo scheduler, a queued live token being drained, or a token
\* message arriving
TokenStep ==
  \/ \E t \in Pending :
       \/ ProcessDemoStep(t) \/ DemoStrike(t) \/ DemoHide(t) \/ DemoCorrect(t)
       \/ DemoSettle(t)
       \/ LiveProcessTokenQueue(t) \/ LiveStrike(t) \/ LiveHide(t) \/ LiveFilter(t)
       \/ LiveSettle(t)
  \/ \E r \in Runs, m \in TokenMsgs : OnMessage(r, m)

\* C6: once done with phase complete, no demo step and no queued or arriving live
\* token changes the visible tokens, the counts or the phase.
C6_CompleteRunIsFrozen ==
  [][(done /\ phase = "complete" /\ TokenStep) =>
       UNCHANGED << visibleTokens, counts, phase >>]_vars

\* ---- C7

\* C7: a round message and a done message set the displayed acceptance rate to the
\* message's acceptance_rate times 100 (0.75, 75 hundredths, gives 75 percent, 7500
\* hundredths of a percent), whatever it was before.
C7_RateComesFromMessage ==
  [][\A r \in Runs, m \in RoundMsgs \cup DoneMsgs :
       OnMessage(r, m) =>
         /\ acceptanceRate' = 100 * m.data.acceptance_rate
         /\ m.data.acceptance_rate = 75 => acceptanceRate' = 7500]_vars

\* a round message reporting 0.75 was shown while the run still streams
C7_Witness ==
  /\ run > 0 /\ isStreaming /\ ~done
  /\ acceptanceRate = 7500

\* ---- C8

StepStart(step) == IF step.kind = "accepted" THEN step.index ELSE step.rejIdx

StepWidth(step) == IF step.kind = "accepted" THEN 1 ELSE 2

PairAt(toks, i) ==
  /\ toks[i + 1].type = "rejected"
  /\ i + 1 < Len(toks)
  /\ toks[i + 2].type = "corrected"

\* C8: the steps tile the stream from cursor 0 to its end; a step at cursor i is a
\* rejection holding tokens i and i+1, two wide, exactly when token i is rejected and
\* token i+1 exists and is corrected, and otherwise an accepted step holding token i,
\* one wide.
C8_BuildStepsScan ==
  LET steps == DEMO_STEPS IN
  /\ (Len(tokens) = 0) = (steps = <<>>)
  /\ steps # <<>> => StepStart(steps[1]) = 0
  /\ \A k \in 1..Len(steps) :
       LET i == StepStart(steps[k]) IN
       /\ i < Len(tokens)
       /\ IF PairAt(tokens, i)
          THEN steps[k] = [kind |-> "rejection", rejected |-> tokens[i + 1],
                           corrected |-> tokens[i + 2], rejIdx |-> i, corrIdx |-> i + 1]
          ELSE steps[k] = [kind |-> "accepted", token |-> tokens[i + 1], index |-> i]
       /\ IF k < Len(steps)
          THEN StepStart(steps[k + 1]) = i + StepWidth(steps[k])
          ELSE i + StepWidth(steps[k]) = Len(tokens)

\* a run that consumed the steps of a stream holding a lone rejected token, then a
\* rejected token followed by a corrected one
C8_Witness ==
  /\ Len(tokens) = 3
  /\ tokens[1].type = "rejected" /\ tokens[2].type = "rejected"
  /\ tokens[3].type = "corrected"
  /\ done /\ stepIdx = 2

\* ---- C9

\* C9: an error message and the error callback set phase idle, done and not streaming
\* in that firing and leave the visible tokens and the counts as they were.
C9_ErrorStopsRun ==
  [][\A r \in Runs :
       (OnError(r) \/ \E m \in ErrorMsgs : OnMessage(r, m)) =>
         /\ phase' = "idle" /\ done' /\ ~isStreaming'
         /\ UNCHANGED << visibleTokens, counts >>]_vars

\* an error stopped a run that had shown a token
C9_Witness ==
  /\ run > 0 /\ done /\ phase = "idle" /\ ~isStreaming
  /\ visibleTokens # <<>>
  /\ counts.drafted > 0

\* ---- C10

\* C10: the close callback sets phase idle, done and not streaming.
C10_CloseStopsRun ==
  [][\A r \in Runs : OnClose(r) => (phase' = "idle" /\ done' /\ ~isStreaming')]_vars

\* ---- C11

DrainCallbacks == {"processTokenQueue", "liveStrike", "liveHide", "liveFilter", "liveSettle"}

\* a timer of run r's drain chain is pending
DrainPending(r) == \E t \in Pending : t.run = r /\ t.cb \in DrainCallbacks

UnknownTokenMsgs == {m \in TokenMsgs : m.data.type \notin {"accepted", "rejected", "corrected"}}

\* the drain of run r goes on: while it is marked processing, a timer of its chain is
\* pending to take the next queued token
DrainGoesOn == \A r \in Runs : processing[r] => DrainPending(r)

\* C11: a token message of a type outside accepted, rejected, corrected changes no
\* visible token and no count, and the queue drain does not stall on it: tokens
\* queued after it are still taken.
C11_UnknownTokenIsNoop ==
  /\ [][\A r \in Runs, m \in UnknownTokenMsgs :
          OnMessage(r, m) => UNCHANGED << visibleTokens, counts >>]_vars
  /\ []DrainGoesOn

\* ---------------------------------------------------------------- overlapping live runs

\* the messages one transport and its successor deliver together
OverlapMsgs == 3

OverlapMsgSet ==
  { TokenMsg(<<"a", " ", "b">>, "accepted"),
    TokenMsg(<<" ", "c">>, "rejected"),
    [type |-> "done", data |-> [acceptance_rate |-> 75, draft_tokens_accepted |-> 2]],
    [type |-> "error", data |-> [message |-> "failed"]] }

\* live runs only: the backend is online, token, done and error messages arrive, the
\* transport closes, the user resubmits
NextOverlap ==
  \/ CheckHealth("true")
  \/ handleSubmit
  \/ \E r \in Runs, m \in OverlapMsgSet : OnMessageWithin(r, m, OverlapMsgs)
  \/ \E r \in Runs : OnClose(r)
  \/ \E t \in Pending : LiveProcessTokenQueue(t)
  \/ \E t \in Pending : LiveStrike(t)
  \/ \E t \in Pending : LiveHide(t)
  \/ \E t \in Pending : LiveFilter(t)
  \/ \E t \in Pending : CheckDone(t)
  \/ \E p \in {packets[i].id : i \in 1..Len(packets)} : HandlePacketDone(p)

SpecOverlap == Init /\ [][NextOverlap]_vars

\* ---- C12

\* the run is finalized in this step
Finalizes == run > 0 /\ ~(done /\ phase = "complete") /\ done' /\ phase' = "complete"

\* C12: the run is finalized (done, phase complete) only in a state where its token
\* queue is empty and none of its token animations is in flight.
C12_FinalizedOnlyWhenDrained ==
  [][Finalizes => (tokenQueue[run] = <<>> /\ ~processing[run] /\ ~DrainPending(run))]_vars

\* ---------------------------------------------------------------- one live run, timers firing

\* the done message of run r has arrived: the run is finalized or its poll is pending
PollPending(r) == \E t \in Pending : t.run = r /\ t.cb = "checkDone"

DoneArrived(r) == done \/ PollPending(r)

\* token messages arrive until the done message does
LiveToken == ~DoneArrived(1) /\ \E m \in TokenMsgs : OnMessage(1, m)

LiveDone == ~DoneArrived(1) /\ \E m \in DoneMsgs : OnMessage(1, m)

FirstSubmit == run = 0 /\ handleSubmit

PacketDone == \E p \in {packets[i].id : i \in 1..Len(packets)} : HandlePacketDone(p)

\* one run without error, closure or resubmit
NextLive ==
  \/ CheckHealth("true")
  \/ FirstSubmit
  \/ LiveToken
  \/ LiveDone
  \/ \E t \in Pending : LiveProcessTokenQueue(t)
  \/ \E t \in Pending : LiveStrike(t)
  \/ \E t \in Pending : LiveHide(t)
  \/ \E t \in Pending : LiveFilter(t)
  \/ \E t \in Pending : LiveSettle(t)
  \/ \E t \in Pending : CheckDone(t)
  \/ PacketDone

\* every scheduled timer eventually fires, and every packet's travel ends
LiveFairness ==
  /\ WF_vars(\E t \in Pending : LiveProcessTokenQueue(t))
  /\ WF_vars(\E t \in Pending : LiveStrike(t))
  /\ WF_vars(\E t \in Pending : LiveHide(t))
  /\ WF_vars(\E t \in Pending : LiveFilter(t))
  /\ WF_vars(\E t \in Pending : LiveSettle(t))
  /\ WF_vars(\E t \in Pending : CheckDone(t))
  /\ WF_vars(PacketDone)

SpecLive == Init /\ [][NextLive]_vars /\ LiveFairness

\* ---- C13

\* C13: in a live run that got token messages and then a done message, with no error,
\* closure or resubmit and every timer firing, the queue is eventually drained and the
\* run reaches done with phase complete.
C13_RunCompletes ==
  DoneArrived(1) ~> (done /\ phase = "complete" /\ tokenQueue[1] = <<>>)

\* ---- C14

\* the transport calls of the submits 1..n when each cleans up its predecessor once,
\* before it opens its own transport
RECURSIVE ExpectedLog(_)
ExpectedLog(n) ==
  IF n = 0 THEN << >>
  ELSE ExpectedLog(n - 1)
         \o (IF n > 1 THEN << [op |-> "cleanup", run |-> n - 1] >> ELSE << >>)
         \o << [op |-> "open", run |-> n] >>

\* C14: each submit invokes the cleanup of the handle of the submit before it exactly
\* once, before it opens the new transport, and the first submit invokes none.
C14_PreviousCleanupOnce ==
  /\ transportLog = ExpectedLog(run)
  /\ \A r \in Runs : cleanupCalls[r] = IF r < run THEN 1 ELSE 0
  /\ \A r \in Runs : r < run => transport[r] = "closed"

\* a second submit was made
C14_Witness == run = 2 /\ cleanupCalls[1] = 1 /\ transport[2] = "open"

\* ---- C15

\* pk without its element at position k
RemoveAt(pk, k) == SubSeq(pk, 1, k - 1) \o SubSeq(pk, k + 1, Len(pk))

IsPrefix(a, b) == Len(a) <= Len(b) /\ \A i \in 1..Len(a) : b[i] = a[i]

\* acknowledging id on the active packets removes the one packet holding it, if any
AcknowledgeRemovesOne(id) ==
  LET at == {k \in 1..Len(packets) : packets[k].id = id} IN
  IF at = {}
  THEN handlePacketDone(packets, id) = packets
  ELSE /\ Cardinality(at) = 1
       /\ handlePacketDone(packets, id) = RemoveAt(packets, CHOOSE k \in at : TRUE)

\* C15: handlePacketDone(id) removes exactly the packet with that id, leaves the others
\* in their order and is a no-op when no packet has the id; every other operation,
\* submit included, keeps the active packets and only appends to them.
C15_OnlyAcknowledgedPacketLeaves ==
  /\ [](\A id \in 0..packetId : AcknowledgeRemovesOne(id))
  /\ [][\/ \E k \in 1..Len(packets) :
              /\ HandlePacketDone(packets[k].id)
              /\ packets' = RemoveAt(packets, k)
        \/ IsPrefix(packets, packets')]_vars

\* a packet was acknowledged out of the middle of the active set, and the set
\* outlived a resubmit
C15_Witness ==
  /\ run = 2
  /\ \E k \in 1..Len(packets) - 1 : packets[k + 1].id > packets[k].id + 1
  /\ packets[1].id < packetId - 2

\* ---- C16

\* C16: a round message changes only the displayed acceptance rate: the visible
\* tokens, counts, phase, done flag, token queue, packets and the time-saved and
\* cost-saved metrics stay as they were.
C16_RoundChangesOnlyRate ==
  [][\A r \in Runs, m \in RoundMsgs :
       OnMessage(r, m) =>
         UNCHANGED << visibleTokens, counts, phase, done, tokenQueue, packets,
                      totalInferenceTimeSavedMs, costSavingsDollars >>]_vars

\* a round message arrived in a run that had shown a token, and changed the rate
C16_Witness ==
  /\ run > 0 /\ ~done /\ msgCount = 2
  /\ visibleTokens # << >>
  /\ acceptanceRate = 4000

\* ---- C17

\* C17: in a live run the time saved is acceptedDraftTokens * 12 ms and the cost saved
\* acceptedDraftTokens / 1000 * 0.5 dollars (500 micro-dollars a token) after every
\* message, acceptedDraftTokens being 0 at submit, one more with every accepted token
\* message, the authoritative count at a done message, and otherwise unchanged.
C17_SavingsFollowAcceptedTokens ==
  /\ [](run > 0 =>
          /\ totalInferenceTimeSavedMs = acceptedDraftTokens * 12
          /\ costSavingsDollars = acceptedDraftTokens * 500)
  /\ [][/\ handleSubmit => acceptedDraftTokens' = 0
        /\ \A r \in Runs, m \in Msgs :
             OnMessage(r, m) =>
               acceptedDraftTokens' =
                 IF m.type = "token" /\ m.data.type = "accepted"
                 THEN acceptedDraftTokens + 1
                 ELSE IF m.type = "done" THEN m.data.draft_tokens_accepted
                 ELSE acceptedDraftTokens]_vars

\* an accepted token message counted after the done message's authoritative count
C17_Witness ==
  /\ run > 0 /\ msgCount = 2
  /\ acceptedDraftTokens = 3
  /\ totalInferenceTimeSavedMs = 36
  /\ costSavingsDollars = 1500

\* ---- C18

\* C18: right after a done message acceptedDraftTokens is the message's
\* draft_tokens_accepted and the time saved is 12 ms times it, however many accepted
\* token messages were counted before.
C18_DoneCountIsAuthoritative ==
  [][\A r \in Runs, m \in DoneMsgs :
       OnMessage(r, m) =>
         /\ acceptedDraftTokens' = m.data.draft_tokens_accepted
         /\ totalInferenceTimeSavedMs' = m.data.draft_tokens_accepted * 12]_vars

\* the done message arrived after one accepted token had been counted locally
C18_Witness ==
  /\ run > 0 /\ msgCount = 2
  /\ counts.accepted = 1
  /\ DoneArrived(run)
  /\ acceptedDraftTokens = 2
  /\ totalInferenceTimeSavedMs = 24

\* ---- C19

\* the run was stopped by an error: only the error branch and onError leave done set
\* with phase idle
StoppedByError == run > 0 /\ done /\ phase = "idle"

\* C19: after an error message or the error callback the run's queue is abandoned: no
\* later timer callback of that run appends a visible token, changes a count or moves
\* phase away from idle.
C19_ErrorAbandonsQueue ==
  [][(StoppedByError /\ \E t \in Pending : t.run = run /\ LiveFiring(t)) =>
       /\ UNCHANGED << counts, phase >>
       /\ Len(visibleTokens') <= Len(visibleTokens)]_vars

\* ---- C20

\* the one pending timer is the callback cb
OnlyTimer(bag, cb) ==
  /\ BagCardinality(bag) = 1
  /\ \A t \in BagToSet(bag) : t.cb = cb /\ t.run = 0

LastOf(vt) == vt[Len(vt)]

ButLast(vt) == SubSeq(vt, 1, Len(vt) - 1)

\* the step processDemoStep is about to take is a rejection step
AtRejectionStep == stepIdx < Len(DEMO_STEPS) /\ DEMO_STEPS[stepIdx + 1].kind = "rejection"

\* C20: a rejection step of the demo scheduler takes five timer firings, in order:
\* (1) the rejected token is appended as appearing, phase drafting, drafted + 1;
\* (2) it becomes striking, phase verifying, rejected + 1; (3) it becomes hidden;
\* (4) the hidden token is removed and the corrected token appended as appearing, phase
\* correcting, drafted + 1 and corrected + 1; (5) the corrected token becomes settled,
\* phase drafting, and only then the next step is scheduled. Each stage leaves the
\* next stage's timer as the only pending one.
C20_RejectionStepStages ==
  [][\A t \in Pending :
       /\ (ProcessDemoStep(t) /\ AtRejectionStep) =>
            LET step == DEMO_STEPS[stepIdx + 1] IN
            /\ visibleTokens' =
                 Append(visibleTokens, VTok(step.rejected.text, "rejected", "appearing"))
            /\ phase' = "drafting"
            /\ counts' = [counts EXCEPT !.drafted = @ + 1]
            /\ OnlyTimer(timers', "strike")
       /\ DemoStrike(t) =>
            /\ LastOf(visibleTokens).type = "rejected"
            /\ LastOf(visibleTokens).phase = "appearing"
            /\ visibleTokens' =
                 Append(ButLast(visibleTokens),
                        [LastOf(visibleTokens) EXCEPT !.phase = "striking"])
            /\ phase' = "verifying"
            /\ counts' = [counts EXCEPT !.rejected = @ + 1]
            /\ OnlyTimer(timers', "hide")
       /\ DemoHide(t) =>
            /\ LastOf(visibleTokens).phase = "striking"
            /\ visibleTokens' =
                 Append(ButLast(visibleTokens),
                        [LastOf(visibleTokens) EXCEPT !.phase = "hidden"])
            /\ UNCHANGED << phase, counts >>
            /\ OnlyTimer(timers', "correct")
       /\ DemoCorrect(t) =>
            /\ LastOf(visibleTokens).phase = "hidden"
            /\ visibleTokens' =
                 Append(ButLast(visibleTokens),
                        VTok(DEMO_STEPS[stepIdx].corrected.text, "corrected", "appearing"))
            /\ \A i \in 1..Len(visibleTokens') : visibleTokens'[i].phase # "hidden"
            /\ phase' = "correcting"
            /\ counts' = [counts EXCEPT !.drafted = @ + 1, !.corrected = @ + 1]
            /\ OnlyTimer(timers', "settle")
       /\ DemoSettle(t) =>
            /\ LastOf(visibleTokens).type = "corrected"
            /\ LastOf(visibleTokens).phase = "appearing"
            /\ visibleTokens' =
                 Append(ButLast(visibleTokens),
                        [LastOf(visibleTokens) EXCEPT !.phase = "settled"])
            /\ phase' = "drafting"
            /\ UNCHANGED counts
            /\ OnlyTimer(timers', "processDemoStep")]_vars

\* a rejection step ran through its five stages after an accepted step
C20_Witness ==
  /\ backendOnline = "false" /\ ~done
  /\ stepIdx = 2 /\ DEMO_STEPS[2].kind = "rejection"
  /\ OnlyTimer(timers, "processDemoStep")
  /\ Len(visibleTokens) = 2
  /\ LastOf(visibleTokens) = VTok(DEMO_STEPS[2].corrected.text, "corrected", "settled")
  /\ counts = [drafted |-> 3, accepted |-> 1, rejected |-> 1, corrected |-> 1]

\* ---- C21

\* the step processDemoStep is about to take wraps a rejected token that no corrected
\* token follows
AtLoneRejected ==
  /\ stepIdx < Len(DEMO_STEPS)
  /\ DEMO_STEPS[stepIdx + 1].kind = "accepted"
  /\ DEMO_STEPS[stepIdx + 1].token.type = "rejected"

NumVisible(type, ph) ==
  Cardinality({i \in 1..Len(visibleTokens) :
                 visibleTokens[i].type = type /\ visibleTokens[i].phase = ph})

\* C21: a rejected token with no corrected token right after it is processed as an
\* accepted step: appended as settled, drafted + 1 and no other count, and it never
\* becomes striking or hidden and never leaves the visible list.
C21_LoneRejectedIsAccepted ==
  /\ [][\A t \in Pending :
          (ProcessDemoStep(t) /\ AtLoneRejected) =>
            /\ visibleTokens' =
                 Append(visibleTokens,
                        VTok(DEMO_STEPS[stepIdx + 1].token.text, "rejected", "settled"))
            /\ counts' = [counts EXCEPT !.drafted = @ + 1]]_vars
  /\ [](backendOnline = "false" =>
          /\ NumVisible("rejected", "settled") = NumAcceptedTagged("rejected")
          /\ \A i \in 1..Len(visibleTokens) :
               visibleTokens[i].phase \in {"striking", "hidden"} =>
                 /\ i = Len(visibleTokens)
                 /\ DEMO_STEPS[stepIdx].kind = "rejection")

\* a finished run over a rejected token followed by an accepted one and a trailing
\* rejected token
C21_Witness ==
  /\ backendOnline = "false" /\ done
  /\ Len(tokens) = 3
  /\ tokens[1].type = "rejected" /\ tokens[2].type = "accepted"
  /\ tokens[3].type = "rejected"
  /\ NumVisible("rejected", "settled") = 2
  /\ counts = [drafted |-> 3, accepted |-> 1, rejected |-> 0, corrected |-> 0]

\* ---------------------------------------------------------------- demo run, timers firing

DemoTimerFires ==
  \E t \in Pending :
    \/ ProcessDemoStep(t) \/ DemoStrike(t) \/ DemoHide(t) \/ DemoCorrect(t)
    \/ DemoSettle(t)

\* streams of the fair demo runs: the example, an empty stream, a lone rejected token,
\* a rejection whose correction is followed by an accepted token, two rejected tokens
\* before a correction, a stream that ends in a rejected token, and three streams of
\* several words
FairStreams ==
  { ExampleStream,
    << >>,
    << Tok(<<"a">>, "rejected") >>,
    << Tok(<<"a">>, "rejected"), Tok(<<"a">>, "corrected"), Tok(<<"a">>, "accepted") >>,
    << Tok(<<"a">>, "rejected"), Tok(<<"a">>, "rejected"), Tok(<<"a">>, "corrected") >>,
    << Tok(<<"a">>, "corrected"), Tok(<<"a">>, "accepted"), Tok(<<"a">>, "rejected") >>,
    << Tok(<<" ", "b", " ", "c">>, "accepted"), Tok(<<"a">>, "accepted") >>,
    << Tok(<<"a", " ", "b">>, "rejected"), Tok(<<" ", "c">>, "corrected") >>,
    << Tok(<<"a">>, "accepted"), Tok(<<" ", "b">>, "rejected"),
       Tok(<<" ", "c", " ", "d">>, "rejected"), Tok(<<" ", "e">>, "corrected") >> }

InitDemoFair ==
  /\ tokens \in FairStreams
  /\ InitCommon

\* every scheduled timer eventually fires, and every packet's travel ends
SpecDemoFair ==
  InitDemoFair /\ [][NextDemo]_vars /\ WF_vars(DemoTimerFires) /\ WF_vars(PacketDone)


\* ---- C22

\* C22: a started demo run takes every step once, in order, and reaches the firing
\* that finds the cursor past the end; that firing sets phase complete and done and
\* schedules no timer.
C22_DemoRunTerminates ==
  /\ [][\A t \in Pending :
          ProcessDemoStep(t) =>
            IF stepIdx >= Len(DEMO_STEPS)
            THEN done' /\ phase' = "complete" /\ timers' = EmptyBag /\ stepIdx' = stepIdx
            ELSE stepIdx' = stepIdx + 1 /\ ~done']_vars
  /\ [][stepIdx' # stepIdx => \E t \in Pending : ProcessDemoStep(t)]_vars
  /\ [](done => /\ stepIdx = Len(DEMO_STEPS)
                /\ counts.drafted = Len(tokens)
                /\ timers = EmptyBag)
  /\ (backendOnline = "false") ~> (done /\ phase = "complete")

\* a run over three steps has finished
C22_Witness ==
  /\ backendOnline = "false" /\ done /\ phase = "complete"
  /\ Len(DEMO_STEPS) = 3 /\ stepIdx = 3
  /\ timers = EmptyBag

\* ---- C23

\* C23: in the chat stream the counts inside the status snapshot equal the counts
\* state after every timer firing.
C23_StatusCountsMatch == status.counts = counts

\* ---- C24

CountNames == {"accepted", "rejected", "corrected", "drafted"}

\* C24: from one state to the next no count decreases unless the step is a submit, and
\* a submit leaves all four counts at zero.
C24_CountsOnlyRise ==
  [][/\ run' = run => \A k \in CountNames : counts'[k] >= counts[k]
     /\ run' # run => \A k \in CountNames : counts'[k] = 0]_vars

\* the second submit has reset the counts of a run that had emitted packets
C24_Witness ==
  /\ run = 2
  /\ \A k \in CountNames : counts[k] = 0
  /\ packetId > 0
  /\ isStreaming

\* ---- C25

\* C25: every packet in flight runs forward (ltr) on the draft lane and backward (rtl)
\* on the verify lane, and the ids of the packets, both lanes together, rise strictly
\* in the order of emission and lie below the next id to hand out.
C25_PacketDirectionAndIds ==
  \A i \in 1..Len(packets) :
    /\ packets[i].lane \in Lanes
    /\ packets[i].direction = (IF packets[i].lane = "draft" THEN "ltr" ELSE "rtl")
    /\ packets[i].id < packetId
    /\ \A j \in 1..Len(packets) : i < j => packets[i].id < packets[j].id

\* a draft packet and a verify packet in flight after an earlier packet was acknowledged
C25_Witness ==
  /\ Len(packets) = 2
  /\ packets[1].lane = "draft" /\ packets[1].direction = "ltr"
  /\ packets[2].lane = "verify" /\ packets[2].direction = "rtl"
  /\ packets[1].id > 0

\* ---- C26

\* the pending timers of run r's drain chain, counted with multiplicity
DrainTimers(r) == {t \in Pending : t.run = r /\ t.cb \in DrainCallbacks}

RECURSIVE SumCopies(_)
SumCopies(S) ==
  IF S = {} THEN 0
  ELSE LET t == CHOOSE x \in S : TRUE IN timers[t] + SumCopies(S \ {t})

DrainCount(r) == SumCopies(DrainTimers(r))

\* C26: a live run animates at most one token at a time: at most one timer of its
\* drain chain is pending, none while the run is not processing, and a token leaves
\* the queue only when no such timer is pending or in the firing of the pending one.
C26_OneTokenAtATime ==
  /\ [](\A r \in Runs : /\ DrainCount(r) <= 1
                        /\ ~processing[r] => DrainCount(r) = 0)
  /\ [][\A r \in Runs :
          Len(tokenQueue'[r]) < Len(tokenQueue[r]) =>
            \/ DrainCount(r) = 0
            \/ \E t \in DrainTimers(r) : LiveProcessTokenQueue(t) \/ LiveFilter(t)]_vars

\* a token message arrived while an earlier token of the run is animated: it waits
C26_Witness ==
  \E r \in Runs :
    /\ processing[r]
    /\ DrainCount(r) = 1
    /\ \E t \in DrainTimers(r) : t.cb = "liveStrike"
    /\ Len(tokenQueue[r]) = 1

\* ---- C27

\* the callbacks of the demo chain that are pending
DemoPending == {t \in Pending : t.run = 0}

\* C27: in a demo run at most one callback is pending, timeoutRef holds its handle,
\* and clearTimeout(timeoutRef) leaves no demo callback pending.
C27_SingleDemoTimer ==
  /\ BagCardinality(timers) <= 1
  /\ \A t \in DemoPending : t.h = timeoutRef
  /\ clearTimeout(timers, timeoutRef) = EmptyBag

\* inside a rejection step, the hide callback is the one pending timer
C27_Witness ==
  /\ backendOnline = "false" /\ ~done
  /\ BagCardinality(timers) = 1
  /\ \E t \in DemoPending : t.cb = "hide" /\ t.h = timeoutRef /\ t.h >= 3

\* ---- C28

OverlapTokenMsgs == {m \in OverlapMsgSet : m.type = "token"}

\* this step appends the token to the visible list, after the tokens shown before
Appends(token) ==
  /\ visibleTokens' # << >>
  /\ LastOf(visibleTokens').text = token.text
  /\ LastOf(visibleTokens').type = token.type
  /\ ButLast(visibleTokens') \in {visibleTokens, WithoutHidden(visibleTokens)}

\* C28: the tokens of a live run are appended in the order their messages arrived: a
\* token message puts its token behind the waiting ones, the token taken and appended
\* is always the one waiting longest, and the queue changes in no other way.
C28_TokensAppendedInArrivalOrder ==
  [][\A r \in Runs :
       LET q == tokenQueue[r]
           after == tokenQueue'[r]
       IN /\ \A m \in OverlapTokenMsgs :
               OnMessageWithin(r, m, OverlapMsgs) =>
                 \/ after = Append(q, m.data) /\ visibleTokens' = visibleTokens
                 \/ q = << >> /\ after = << >> /\ Appends(m.data)
          /\ Len(after) < Len(q) => after = Tail(q) /\ Appends(Head(q))
          /\ after # q =>
               \/ Len(after) < Len(q)
               \/ \E m \in OverlapTokenMsgs : OnMessageWithin(r, m, OverlapMsgs)
          /\ Len(visibleTokens') > Len(visibleTokens) =>
               \E x \in Runs : \/ Len(tokenQueue'[x]) < Len(tokenQueue[x])
                               \/ \E m \in OverlapTokenMsgs :
                                    OnMessageWithin(x, m, OverlapMsgs)]_vars

\* accepted, accepted, rejected arrived in that order: the two accepted tokens are
\* shown, the rejected one waits
C28_Witness ==
  /\ run = 1 /\ msgCount = 3
  /\ Len(visibleTokens) = 2
  /\ \A i \in 1..2 : visibleTokens[i].type = "accepted"
  /\ Len(tokenQueue[1]) = 1 /\ tokenQueue[1][1].type = "rejected"

\* ---- C29

\* the time the first k steps of the demo take on the delay clock: 60 ms for an
\* accepted step, 890 ms for a rejection step
RECURSIVE StepsTake(_)
StepsTake(k) ==
  IF k = 0 THEN 0
  ELSE StepsTake(k - 1) + (IF DEMO_STEPS[k].kind = "accepted" THEN 60 ELSE 890)

\* C29: on the delay clock the demo takes its first step 800 ms after the start, the
\* step after an accepted step 60 ms after that step, and the step after a rejection
\* step 890 ms after the rejection step began; the stages of a rejection step come
\* 80, 580, 680 and 830 ms after its beginning.
C29_StepTimes ==
  /\ [][\A t \in Pending :
          ProcessDemoStep(t) => clock' = 800 + StepsTake(stepIdx)]_vars
  /\ [][\A t \in Pending :
          /\ DemoStrike(t) => clock' = 800 + StepsTake(stepIdx - 1) + 80
          /\ DemoHide(t) => clock' = 800 + StepsTake(stepIdx - 1) + 580
          /\ DemoCorrect(t) => clock' = 800 + StepsTake(stepIdx - 1) + 680
          /\ DemoSettle(t) => clock' = 800 + StepsTake(stepIdx - 1) + 830]_vars

\* a rejection step and an accepted step are over: the last firing comes at
\* 800 + 890 + 60 ms
C29_Witness ==
  /\ backendOnline = "false" /\ done
  /\ Len(DEMO_STEPS) = 2
  /\ DEMO_STEPS[1].kind = "rejection" /\ DEMO_STEPS[2].kind = "accepted"
  /\ clock = 1750

\* ---- C30

\* the tokens of a list that are not hidden, in their order
Shown(vt) ==
  LET Visible(t) == t.phase # "hidden" IN SelectSeq(vt, Visible)

\* list b begins with the tokens of list a, in the same order, whatever their phases
SameTokensFirst(a, b) ==
  /\ Len(b) >= Len(a)
  /\ \A i \in 1..Len(a) : b[i].text = a[i].text /\ b[i].type = a[i].type

\* C30: within a run a step keeps the visible tokens in their order, removing none
\* or exactly the hidden ones, and appends at most one token at the end; only a
\* submit empties the list.
C30_VisibleListAppendOnly ==
  [][IF run' # run
     THEN visibleTokens' = << >>
     ELSE \E kept \in {visibleTokens, Shown(visibleTokens)} :
            /\ SameTokensFirst(kept, visibleTokens')
            /\ Len(visibleTokens') <= Len(kept) + 1]_vars

\* the demo's first rejected token was hidden and removed, its correction appended
\* after the nine tokens shown before
C30_Witness ==
  /\ backendOnline = "false"
  /\ counts.rejected = 1
  /\ Len(visibleTokens) = 10
  /\ \A i \in 1..9 : visibleTokens[i].type = "accepted"
  /\ visibleTokens[10].type = "corrected"

\* ---- C31

\* the tokens a step carries, in order
StepTokens(step) ==
  IF step.kind = "accepted" THEN << step.token >> ELSE << step.rejected, step.corrected >>

\* the tokens of the first k steps, in step order
RECURSIVE TokensOfSteps(_, _)
TokensOfSteps(steps, k) ==
  IF k = 0 THEN << >> ELSE TokensOfSteps(steps, k - 1) \o StepTokens(steps[k])

\* C31: the tokens carried by the steps of buildSteps, concatenated in step order, are
\* the input sequence: none lost, duplicated or moved.
C31_StepsCarryTheStream ==
  TokensOfSteps(DEMO_STEPS, Len(DEMO_STEPS)) = tokens

\* the steps of a rejected-corrected pair followed by a lone rejected token were built
\* and consumed
C31_Witness ==
  /\ Len(tokens) = 3
  /\ tokens[1].type = "rejected" /\ tokens[2].type = "corrected"
  /\ tokens[3].type = "rejected"
  /\ Len(DEMO_STEPS) = 2
  /\ done /\ stepIdx = 2

\* ---- C32

Classified(c) == c.accepted + c.rejected + c.corrected

\* C32: in one live run drafted equals accepted + rejected + corrected in every state,
\* and a step that changes the counts raises drafted by one and one of the other
\* three by one.
C32_DraftedIsSumOfKinds ==
  /\ [](counts.drafted = Classified(counts))
  /\ [][counts' # counts =>
          /\ counts'.drafted = counts.drafted + 1
          /\ Classified(counts') = Classified(counts) + 1
          /\ \A k \in {"accepted", "rejected", "corrected"} : counts'[k] >= counts[k]]_vars

\* a rejected token and an accepted token of the run were drained
C32_Witness ==
  /\ run = 1
  /\ counts = [drafted |-> 2, accepted |-> 1, rejected |-> 1, corrected |-> 0]

\* ---- C33

\* the positions of the visible tokens whose phase is not settled
Unsettled == {i \in 1..Len(visibleTokens) : visibleTokens[i].phase # "settled"}

\* C33: while no second run was started (the demo, or the first live run), at most
\* one visible token has a phase other than settled, and it is the last of the list.
C33_OnlyLastTokenUnsettled ==
  run <= 1 => Unsettled \subseteq {Len(visibleTokens)}

\* live: a rejected token is struck behind a settled accepted token
C33_Witness ==
  /\ run = 1
  /\ Len(visibleTokens) = 2
  /\ visibleTokens[1].phase = "settled"
  /\ visibleTokens[2].phase = "striking"

\* ---- C34

\* C34: the entries of the status event log have pairwise distinct ids.
C34_EventIdsDistinct ==
  \A i, j \in 1..Len(statusEvents) :
    i # j => statusEvents[i].id # statusEvents[j].id

\* ---- C35

\* C35: a submit empties the visible tokens, zeroes the counts, the time and cost
\* saved and both lane word buffers, sets phase idle and done false, and leaves the
\* packets in flight and the packet id counter as they are; the counter never goes
\* back, and no two packets in flight have the same id.
C35_SubmitKeepsPacketIds ==
  /\ [][handleSubmit =>
          /\ visibleTokens' = << >>
          /\ \A k \in DOMAIN counts' : counts'[k] = 0
          /\ phase' = "idle" /\ ~done'
          /\ totalInferenceTimeSavedMs' = 0 /\ costSavingsDollars' = 0
          /\ packetWordBuffer' = [draft |-> 0, verify |-> 0]
          /\ UNCHANGED << packets, packetId >>]_vars
  /\ [][packetId' >= packetId]_vars
  /\ [](\A i, j \in 1..Len(packets) : i # j => packets[i].id # packets[j].id)

\* the first run emitted the packets 0 and 1; the packets of the second run carry
\* the ids 2 and 3
C35_Witness ==
  /\ run = 2
  /\ packetId = 4
  /\ Len(packets) = 2
  /\ packets[1].id = 2 /\ packets[2].id = 3

\* ---- C36

\* C36: a submit leaves the displayed acceptance rate as it is and sets the time and
\* the cost saved to zero; the rate changes only when a round or done message of the
\* current run arrives.
C36_SubmitKeepsAcceptanceRate ==
  /\ [][handleSubmit =>
          /\ acceptanceRate' = acceptanceRate
          /\ totalInferenceTimeSavedMs' = 0
          /\ costSavingsDollars' = 0]_vars
  /\ [][acceptanceRate' # acceptanceRate =>
          \E m \in RoundMsgs \cup DoneMsgs : OnMessage(run, m)]_vars

\* the second run, before any message of its own, shows the 75 % the first run's
\* only message reported
C36_Witness ==
  /\ run = 2 /\ isStreaming
  /\ msgCount = 1
  /\ acceptanceRate = 7500
  /\ totalInferenceTimeSavedMs = 0 /\ costSavingsDollars = 0

\* ---- C37

\* stage 1 of a demo rejection step has run and stage 2 has not: the strike timer
\* is pending
BetweenDraftAndVerify == \E t \in Pending : t.run = 0 /\ t.cb = "strike"

\* C37: the two lanes hold the same number of buffered words, have been given the
\* same number of words and have emitted the same number of packets in every state
\* of a live run and of a demo run, except in a demo run between stage 1 and stage 2
\* of a rejection step.
C37_LanesInStep ==
  ~BetweenDraftAndVerify =>
    /\ packetWordBuffer["draft"] = packetWordBuffer["verify"]
    /\ laneWords["draft"] = laneWords["verify"]
    /\ laneEmitted["draft"] = laneEmitted["verify"]

\* live: both lanes were given the four words of a rejected token and the two of an
\* accepted one
C37_Witness ==
  /\ run = 1
  /\ laneWords["draft"] = 6 /\ laneWords["verify"] = 6
  /\ laneEmitted["draft"] = 2 /\ laneEmitted["verify"] = 2
  /\ packetWordBuffer["draft"] = 0

\* ---- C38

\* the accepted tokens waiting in run r's queue
QueuedAccepted(r) ==
  Cardinality({i \in 1..Len(tokenQueue[r]) : tokenQueue[r][i].type = "accepted"})

\* C38: in one live run, until the done message arrives, acceptedDraftTokens equals
\* the displayed accepted count plus the accepted tokens still queued, and the time
\* and cost saved are computed from it: the metrics are never behind the displayed
\* count and agree with it when no accepted token waits.
C38_MetricsLeadDisplayedCount ==
  (run = 1 /\ ~DoneArrived(1)) =>
    /\ acceptedDraftTokens = counts.accepted + QueuedAccepted(1)
    /\ acceptedDraftTokens >= counts.accepted
    /\ totalInferenceTimeSavedMs = 12 * acceptedDraftTokens
    /\ costSavingsDollars = (500000 * acceptedDraftTokens) \div 1000
    /\ QueuedAccepted(1) = 0 => totalInferenceTimeSavedMs = 12 * counts.accepted

\* one accepted token is shown, a second one waits: the metrics count both
C38_Witness ==
  /\ run = 1 /\ ~DoneArrived(1)
  /\ counts.accepted = 1
  /\ QueuedAccepted(1) = 1
  /\ acceptedDraftTokens = 2
  /\ totalInferenceTimeSavedMs = 24

====
